---- MODULE Spec2Model ----
(***************************************************************************)
(* Model of CosmBuildMonitor.ino: the setup() retry loop and the loop()    *)
(* function with its two interval timers (LED render / Cosm fetch).        *)
(*                                                                         *)
(* loop() is split at the one call that can take time, cosmclient.get:     *)
(* LoopTick is loop() from the millis() sample up to the call, GetReturn   *)
(* is the return of the call and the rest of loop().  The millisecond      *)
(* clock advances between the steps (Advance).                             *)
(***************************************************************************)
EXTENDS Integers, Sequences, FiniteSets, TLC

(* ---------------- bounds of the model ---------------- *)

\* number of clock advances explored in one behaviour
MaxAdvances == 5

\* width in bits given to long / unsigned long.  The Arduino targets have
\* 32; the model checker's integers are themselves 32 bits wide, so the
\* counter is modelled with a narrower word that still holds both intervals
\* in its positive signed half.
WordBits == 16

(* ---------------- program constants ---------------- *)

\* number of values of an unsigned long, and the first one that is negative
\* when held in a long
Word == 2 ^ WordBits
HalfWord == Word \div 2

LOW == 0
HIGH == 1

blinkInterval == 1000
fetchInterval == 15000
dhcpRetryDelay == 15000

\* values a DATASTREAM_INT datastream of the feed may carry
FlagValues == {0, 1, 2}

\* amounts by which the millisecond clock moves between two steps: below,
\* at and around the two intervals, and a jump that carries it to the wrap
WrapJump == Word - 1000
Deltas == {1, 1000, 15000, WrapJump}

(* ---------------- integer conversions ---------------- *)

\* value of a long converted to unsigned long
ToULong(x) == x % Word

\* value of an unsigned long stored in a (signed) long
ToLong(u) == IF u >= HalfWord THEN u - Word ELSE u

(* ---------------- state ---------------- *)

VARIABLES
  pc,                   \* "setup", "loop" (top of loop()), "get" (inside cosmclient.get)
  uptime,               \* milliseconds since boot, unwrapped
  nAdv,                 \* clock advances so far
  previousBlinkMillis,  \* long
  previousFetchMillis,  \* long
  building, failing,    \* int
  redState, yellowState, greenState,
  pins,                 \* levels last written to the red, yellow, green pins
  feed,                 \* <<feed[0].getInt(), feed[1].getInt()>>
  ret,                  \* result of the last cosmclient.get: "none", "ok", "error"
  \* history variables: they record the run, the program does not hold them
  lastBlinkAt,          \* uptime of the last render tick (0: boot)
  lastFetchAt,          \* uptime of the last poll tick (0: boot)
  nRender,              \* render ticks so far, counted up to 2
  nPoll,                \* poll ticks so far, counted up to 2
  lastGood,             \* flag pair delivered by the last successful get
  shown,                \* value of building at the last render tick
  run,                  \* render ticks in a row that saw building = 1
  prevRun,              \* length of the last such row that has ended
  wasFalse,             \* building has been 0 at or since the last render tick
  last                  \* what the last step did

vars == <<pc, uptime, nAdv, previousBlinkMillis, previousFetchMillis,
          building, failing, redState, yellowState, greenState, pins,
          feed, ret, lastBlinkAt, lastFetchAt, nRender, nPoll, lastGood,
          shown, run, prevRun, wasFalse, last>>

timers == <<previousBlinkMillis, previousFetchMillis>>
flags == <<building, failing>>
leds == <<redState, yellowState, greenState, pins>>
renderHist == <<lastBlinkAt, nRender, shown, run, prevRun>>
pollHist == <<lastFetchAt, nPoll>>

\* millis(): the clock as the program reads it
millis == uptime % Word

\* record of a step: the operation, whether a loop tick ran the render and
\* the poll branch, the time since the last render and poll tick when the
\* step began, and whether the step before it was the return of a get
Step(op, render, poll) ==
  [op |-> op, render |-> render, poll |-> poll,
   sinceBlink |-> uptime - lastBlinkAt, sinceFetch |-> uptime - lastFetchAt,
   afterGet |-> (last.op = "get")]

Init ==
  /\ pc = "setup"
  /\ uptime = 0
  /\ nAdv = 0
  /\ previousBlinkMillis = 0
  /\ previousFetchMillis = 0
  /\ building = 0
  /\ failing = 0
  /\ redState = LOW
  /\ yellowState = LOW
  /\ greenState = LOW
  /\ pins = <<LOW, LOW, LOW>>
  /\ feed = <<0, 0>>
  /\ ret = "none"
  /\ lastBlinkAt = 0
  /\ lastFetchAt = 0
  /\ nRender = 0
  /\ nPoll = 0
  /\ lastGood = <<0, 0>>
  /\ shown = 0
  /\ run = 0
  /\ prevRun = 0
  /\ wasFalse = TRUE
  /\ last = [op |-> "boot", render |-> FALSE, poll |-> FALSE,
             sinceBlink |-> 0, sinceFetch |-> 0, afterGet |-> FALSE]

(* ---------------- the clock ---------------- *)

Advance(d) ==
  /\ nAdv < MaxAdvances
  /\ uptime' = uptime + d
  /\ nAdv' = nAdv + 1
  /\ last' = Step("advance", FALSE, FALSE)
  /\ UNCHANGED <<pc, timers, flags, leds, feed, ret, renderHist, pollHist,
                 lastGood, wasFalse>>

(* ---------------- setup() ---------------- *)

\* Ethernet.begin(mac) returned 1: setup() returns and loop() starts
SetupDone ==
  /\ pc = "setup"
  /\ pc' = "loop"
  /\ last' = Step("begin", FALSE, FALSE)
  /\ UNCHANGED <<uptime, nAdv, timers, flags, leds, feed, ret, renderHist,
                 pollHist, lastGood, wasFalse>>

\* Ethernet.begin(mac) failed: delay(15000) and go on without a network
SetupRetry_GivesUp ==
  /\ pc = "setup"
  /\ nAdv < MaxAdvances
  /\ uptime' = uptime + dhcpRetryDelay
  /\ nAdv' = nAdv + 1
  /\ pc' = "loop"
  /\ last' = Step("retry", FALSE, FALSE)
  /\ UNCHANGED <<timers, flags, leds, feed, ret, renderHist, pollHist,
                 lastGood, wasFalse>>

\* Ethernet.begin(mac) failed: delay(15000) and try again
SetupRetry ==
  /\ pc = "setup"
  /\ nAdv < MaxAdvances
  /\ uptime' = uptime + dhcpRetryDelay
  /\ nAdv' = nAdv + 1
  /\ last' = Step("retry", FALSE, FALSE)
  /\ UNCHANGED <<pc, timers, flags, leds, feed, ret, renderHist, pollHist,
                 lastGood, wasFalse>>

(* ---------------- loop() ---------------- *)

\* the subtraction done on signed values, without the wrap of unsigned long
Due_Signed(currentMillis, previous, interval) ==
  (currentMillis - previous) > interval

\* currentMillis - previous > interval, in unsigned long arithmetic
Due(currentMillis, previous, interval) ==
  ((currentMillis - ToULong(previous)) % Word) > ToULong(interval)

\* yellow follows building without blinking
NextYellow_NoToggle(b, y) ==
  IF b = 1 THEN HIGH ELSE LOW

\* the levels of the idle yellow LED confused: off is written as HIGH
NextYellow_OffIsHigh(b, y) ==
  IF b = 1 THEN (IF y = LOW THEN HIGH ELSE LOW) ELSE HIGH

\* the phase is kept, not reset, when nothing is building
NextYellow_NoReset(b, y) ==
  IF b = 1 THEN (IF y = LOW THEN HIGH ELSE LOW) ELSE y

NextYellow(b, y) ==
  IF b = 1 THEN (IF y = LOW THEN HIGH ELSE LOW) ELSE LOW

\* red shows the passing state
NextRed_Inverted(f) == IF f = 1 THEN LOW ELSE HIGH

NextRed(f) == IF f = 1 THEN HIGH ELSE LOW

\* green is lit by every render, failing or not
NextGreen_AlwaysOn(f) == HIGH

\* green is lit whenever failing is not 0, and only then
NextGreen_Inverted(f) == IF f = 0 THEN LOW ELSE HIGH

NextGreen(f) == IF f = 1 THEN LOW ELSE HIGH

\* the body of the blink-timer branch
Render(currentMillis) ==
  /\ previousBlinkMillis' = ToLong(currentMillis)
  /\ yellowState' = NextYellow(building, yellowState)
  /\ redState' = NextRed(failing)
  /\ greenState' = NextGreen(failing)
  /\ pins' = <<redState', yellowState', greenState'>>
  /\ lastBlinkAt' = uptime
  /\ nRender' = IF nRender < 2 THEN nRender + 1 ELSE 2
  /\ shown' = building
  /\ run' = IF building = 1 THEN run + 1 ELSE 0
  /\ prevRun' = IF building # 1 /\ run > 0 THEN run ELSE prevRun
  /\ wasFalse' = (building = 0)

\* the yellow phase is toggled and written in every iteration, outside the timer
NoRender_StillBlinks ==
  /\ yellowState' = NextYellow(building, yellowState)
  /\ pins' = <<redState, yellowState', greenState>>
  /\ UNCHANGED <<previousBlinkMillis, redState, greenState, renderHist, wasFalse>>

\* the blink-timer branch is skipped
NoRender ==
  UNCHANGED <<previousBlinkMillis, leds, renderHist, wasFalse>>

\* the fetch-timer branch without the update of previousFetchMillis
StartPoll_NoStamp(currentMillis) ==
  /\ UNCHANGED previousFetchMillis
  /\ lastFetchAt' = uptime
  /\ nPoll' = IF nPoll < 2 THEN nPoll + 1 ELSE 2
  /\ pc' = "get"

\* the fetch-timer branch up to the call of cosmclient.get
StartPoll(currentMillis) ==
  /\ previousFetchMillis' = ToLong(currentMillis)
  /\ lastFetchAt' = uptime
  /\ nPoll' = IF nPoll < 2 THEN nPoll + 1 ELSE 2
  /\ pc' = "get"

\* the fetch-timer branch is skipped
NoPoll ==
  UNCHANGED <<previousFetchMillis, pollHist, pc>>

\* loop() with the poll check in the else of the render check: a render
\* skips the poll
LoopTick_RenderElsePoll ==
  /\ pc = "loop"
  /\ LET currentMillis == millis
         renderDue == Due(currentMillis, previousBlinkMillis, blinkInterval)
         pollDue == ~renderDue /\ Due(currentMillis, previousFetchMillis, fetchInterval)
     IN /\ IF renderDue THEN Render(currentMillis) ELSE NoRender
        /\ IF pollDue THEN StartPoll(currentMillis) ELSE NoPoll
        /\ last' = Step("tick", renderDue, pollDue)
  /\ UNCHANGED <<uptime, nAdv, flags, feed, ret, lastGood>>

\* loop() with one shared notion of "last action": a render also restarts
\* the fetch timer
LoopTick_RenderResetsFetch ==
  /\ pc = "loop"
  /\ LET currentMillis == millis
         renderDue == Due(currentMillis, previousBlinkMillis, blinkInterval)
         pollDue == Due(currentMillis, previousFetchMillis, fetchInterval)
     IN /\ IF renderDue THEN Render(currentMillis) ELSE NoRender
        /\ IF pollDue THEN StartPoll(currentMillis)
           ELSE IF renderDue
             THEN /\ previousFetchMillis' = ToLong(currentMillis)
                  /\ UNCHANGED <<pollHist, pc>>
             ELSE NoPoll
        /\ last' = Step("tick", renderDue, pollDue)
  /\ UNCHANGED <<uptime, nAdv, flags, feed, ret, lastGood>>

\* loop() with the two intervals mixed up: the render waits for the fetch
\* interval and the poll for the blink interval
LoopTick_SwappedIntervals ==
  /\ pc = "loop"
  /\ LET currentMillis == millis
         renderDue == Due(currentMillis, previousBlinkMillis, fetchInterval)
         pollDue == Due(currentMillis, previousFetchMillis, blinkInterval)
     IN /\ IF renderDue THEN Render(currentMillis) ELSE NoRender
        /\ IF pollDue THEN StartPoll(currentMillis) ELSE NoPoll
        /\ last' = Step("tick", renderDue, pollDue)
  /\ UNCHANGED <<uptime, nAdv, flags, feed, ret, lastGood>>

\* loop() with the two timer checks chained by else: a due poll skips the render
LoopTick_ElseIf ==
  /\ pc = "loop"
  /\ LET currentMillis == millis
         pollDue == Due(currentMillis, previousFetchMillis, fetchInterval)
         renderDue == ~pollDue /\ Due(currentMillis, previousBlinkMillis, blinkInterval)
     IN /\ IF renderDue THEN Render(currentMillis) ELSE NoRender
        /\ IF pollDue THEN StartPoll(currentMillis) ELSE NoPoll
        /\ last' = Step("tick", renderDue, pollDue)
  /\ UNCHANGED <<uptime, nAdv, flags, feed, ret, lastGood>>

\* loop() from the millis() sample up to the call of cosmclient.get
LoopTick ==
  /\ pc = "loop"
  /\ LET currentMillis == millis
         renderDue == Due(currentMillis, previousBlinkMillis, blinkInterval)
         pollDue == Due(currentMillis, previousFetchMillis, fetchInterval)
     IN /\ IF renderDue THEN Render(currentMillis) ELSE NoRender
        /\ IF pollDue THEN StartPoll(currentMillis) ELSE NoPoll
        /\ last' = Step("tick", renderDue, pollDue)
  /\ UNCHANGED <<uptime, nAdv, flags, feed, ret, lastGood>>

\* new data restarts the blink: the fetch branch clears the yellow phase
GetReturn_ResetsYellow(ok, content) ==
  /\ pc = "get"
  /\ feed' = content
  /\ ret' = IF ok THEN "ok" ELSE "error"
  /\ building' = feed'[1]
  /\ failing' = feed'[2]
  /\ lastGood' = IF ok THEN content ELSE lastGood
  /\ wasFalse' = (wasFalse \/ building' = 0)
  /\ yellowState' = LOW
  /\ pc' = "loop"
  /\ last' = Step("get", FALSE, FALSE)
  /\ UNCHANGED <<uptime, nAdv, timers, redState, greenState, pins, renderHist, pollHist>>

\* the red and green LEDs are brought up to date as soon as the data arrives
GetReturn_Rerender(ok, content) ==
  /\ pc = "get"
  /\ feed' = content
  /\ ret' = IF ok THEN "ok" ELSE "error"
  /\ building' = feed'[1]
  /\ failing' = feed'[2]
  /\ lastGood' = IF ok THEN content ELSE lastGood
  /\ wasFalse' = (wasFalse \/ building' = 0)
  /\ redState' = NextRed(failing')
  /\ greenState' = NextGreen(failing')
  /\ pins' = <<redState', yellowState, greenState'>>
  /\ pc' = "loop"
  /\ last' = Step("get", FALSE, FALSE)
  /\ UNCHANGED <<uptime, nAdv, timers, yellowState, renderHist, pollHist>>

\* a get that reports an error stops the program
GetReturn_HaltOnError(ok, content) ==
  /\ pc = "get"
  /\ feed' = content
  /\ ret' = IF ok THEN "ok" ELSE "error"
  /\ building' = feed'[1]
  /\ failing' = feed'[2]
  /\ lastGood' = IF ok THEN content ELSE lastGood
  /\ wasFalse' = (wasFalse \/ building' = 0)
  /\ pc' = IF ok THEN "loop" ELSE "halted"
  /\ last' = Step("get", FALSE, FALSE)
  /\ UNCHANGED <<uptime, nAdv, timers, leds, renderHist, pollHist>>

\* cosmclient.get returns, with or without an error and with some content
\* in the feed object; the rest of the fetch-timer branch reads the flags
\* back from the feed object
GetReturn(ok, content) ==
  /\ pc = "get"
  /\ feed' = content
  /\ ret' = IF ok THEN "ok" ELSE "error"
  /\ building' = feed'[1]
  /\ failing' = feed'[2]
  /\ lastGood' = IF ok THEN content ELSE lastGood
  /\ wasFalse' = (wasFalse \/ building' = 0)
  /\ pc' = "loop"
  /\ last' = Step("get", FALSE, FALSE)
  /\ UNCHANGED <<uptime, nAdv, timers, leds, renderHist, pollHist>>

Next ==
  \/ \E d \in Deltas : Advance(d)
  \/ SetupDone
  \/ SetupRetry
  \/ LoopTick
  \/ \E ok \in BOOLEAN, content \in FlagValues \X FlagValues : GetReturn(ok, content)

Spec == Init /\ [][Next]_vars

TypeOK ==
  /\ pc \in {"setup", "loop", "get"}
  /\ uptime \in Nat
  /\ previousBlinkMillis \in -HalfWord .. HalfWord - 1
  /\ previousFetchMillis \in -HalfWord .. HalfWord - 1
  /\ building \in FlagValues /\ failing \in FlagValues
  /\ {redState, yellowState, greenState} \subseteq {LOW, HIGH}
  /\ pins = <<redState, yellowState, greenState>>

(* ---------------- properties ---------------- *)

\* the last step was a loop tick that ran the blink-timer branch
RenderTick == last.op = "tick" /\ last.render

\* the last step was a loop tick that ran the fetch-timer branch
PollTick == last.op = "tick" /\ last.poll

\* C1: a poll tick whose cosmclient.get reports an error leaves building and
\* failing exactly as they were before the poll tick, whatever the failed
\* call left in the feed object.
C1_FailedFetchKeepsFlags ==
  [][(pc = "get" /\ pc' = "loop" /\ ret' = "error")
       => (building' = building /\ failing' = failing)]_vars

\* C2: polling never holds up rendering: the loop is never inside the Signal
\* Source call at a moment when more than the render interval has passed
\* since the last render tick.
C2_RenderNeverHeldUp ==
  (pc = "get") => (uptime - lastBlinkAt <= blinkInterval)

\* C2 (amended): rendering is held up only while the Signal Source call is
\* outstanding: no indicator is written during the call, and every loop tick
\* sampled more than the render interval (and less than one counter period)
\* after the last render tick is a render tick, the first tick after the
\* return of the call included.
C2_RenderHeldUpOnlyByGet ==
  [][/\ (pc = "get") => UNCHANGED <<leds, previousBlinkMillis>>
     /\ (LoopTick /\ uptime - lastBlinkAt > blinkInterval
                  /\ uptime - lastBlinkAt < Word) => last'.render]_vars

\* a render tick right after a call that took time and left the render overdue
C2_Witness ==
  /\ RenderTick /\ last.afterGet
  /\ last.sinceFetch > 0
  /\ last.sinceBlink > blinkInterval /\ last.sinceBlink < Word

\* C3: a render tick at which failing is nonzero writes red on and green off.
C3_FailingNonzeroShowsRed ==
  (RenderTick /\ failing # 0) => (pins[1] = HIGH /\ pins[3] = LOW)

\* C3 (amended): a render tick at which failing equals 1 writes red on and
\* green off, whatever building, the phase and the previous indicator state.
C3_FailingOneShowsRed ==
  (RenderTick /\ failing = 1)
    => (redState = HIGH /\ greenState = LOW /\ pins[1] = HIGH /\ pins[3] = LOW)

C3_Witness == RenderTick /\ failing = 1 /\ building = 1 /\ last.sinceBlink > blinkInterval

\* C4: a render tick at which failing is 0 writes red off and green on,
\* whatever building, the phase and the previous indicator state.
C4_PassingShowsGreen ==
  (RenderTick /\ failing = 0)
    => (redState = LOW /\ greenState = HIGH /\ pins[1] = LOW /\ pins[3] = HIGH)

\* a render tick with failing = 0 that follows a fetch (red was on before or not)
C4_Witness == RenderTick /\ failing = 0 /\ ret # "none" /\ nRender = 2

\* C5: of two successive render ticks that both see building nonzero, the
\* second writes a yellow value different from the first.
C5_NonzeroBuildingAlternates ==
  [][(LoopTick /\ last'.render /\ nRender > 0 /\ shown # 0 /\ building # 0)
       => pins'[2] # pins[2]]_vars

\* C5 (amended): of two successive render ticks that both see building equal
\* to 1, the second writes a yellow value different from the first.
C5_BuildingOneAlternates ==
  [][(LoopTick /\ last'.render /\ nRender > 0 /\ shown = 1 /\ building = 1)
       => (pins'[2] # pins[2] /\ yellowState' = pins'[2])]_vars

\* the third render tick in a row that saw building = 1
C5_Witness == RenderTick /\ run >= 3

\* C6: the blink sequence restarts from the same phase, with true read as 1
\* and false as 0: a render tick that sees building = 0 writes yellow off, and
\* once building has been 0, the first render tick that sees building = 1
\* writes yellow on, whatever the timing of polls and renders.
C6_BlinkAlwaysRestarts ==
  [][(LoopTick /\ last'.render)
       => /\ (building = 0 => pins'[2] = LOW /\ yellowState' = LOW)
          /\ (building = 1 /\ wasFalse => pins'[2] = HIGH)]_vars

\* C6 (amended): a render tick that sees building /= 1 writes yellow off and
\* leaves the phase off; the n-th of a row of render ticks that see
\* building = 1, counted from the last render tick that saw building /= 1 (or
\* from startup), writes yellow on for odd n and off for even n (on, off, on,
\* off, on); a change of building to 0 and back to 1 between two render ticks
\* does not restart the sequence.
C6_BlinkRestartsAfterRenderedOff ==
  /\ (RenderTick /\ building # 1) => (run = 0 /\ pins[2] = LOW)
  /\ (run = 0) => (yellowState = LOW /\ pins[2] = LOW)
  /\ (run > 0) => /\ yellowState = (IF run % 2 = 1 THEN HIGH ELSE LOW)
                  /\ pins[2] = yellowState

\* the first render tick of a second row of render ticks with building = 1
C6_Witness == RenderTick /\ run = 1 /\ prevRun >= 1 /\ building = 1

\* C7: two render ticks are at least the render interval apart and two poll
\* ticks (two calls of the Signal Source) at least the poll interval, for any
\* placement of the loop ticks and any clock samples.
C7_RateLimited ==
  /\ (RenderTick /\ nRender = 2) => (last.sinceBlink >= blinkInterval)
  /\ (PollTick /\ nPoll = 2) => (last.sinceFetch >= fetchInterval)

\* a tick that is a second render tick and a second poll tick
C7_Witness == RenderTick /\ PollTick /\ nRender = 2 /\ nPoll = 2

\* C8: the flag pair a render tick works on is the pair of one successful
\* fetch (or the initial pair): a failed or incomplete fetch never changes it.
C8_PairFromOneGoodFetch ==
  RenderTick => (<<building, failing>> = lastGood)

C10_DueAcrossWrap ==
  (last.op = "tick")
    => /\ (last.sinceBlink < Word)
             => (last.render <=> (last.sinceBlink > blinkInterval))
       /\ (last.sinceFetch < Word)
             => (last.poll <=> (last.sinceFetch > fetchInterval))

\* a second render tick, the counter having wrapped since the first, whose
\* timestamp was negative as a long
C10_Witness ==
  /\ RenderTick /\ nRender = 2 /\ last.sinceBlink < Word
  /\ (uptime - last.sinceBlink) \div Word < uptime \div Word
  /\ (uptime - last.sinceBlink) % Word >= HalfWord

\* the two timer checks of loop(), on the clock sample of a tick starting now
RenderDueNow == Due(millis, previousBlinkMillis, blinkInterval)
PollDueNow == Due(millis, previousFetchMillis, fetchInterval)

\* C11: every loop tick evaluates both timer checks against the same clock
\* sample: the render branch runs exactly when the render timer is due and
\* the poll branch exactly when the poll timer is due, each whatever the
\* other does; when both are due both run, with the same timestamp.
C11_BothChecksEveryTick ==
  [][LoopTick
       => /\ IF RenderDueNow
               THEN previousBlinkMillis' = ToLong(millis) /\ lastBlinkAt' = uptime
               ELSE UNCHANGED <<previousBlinkMillis, lastBlinkAt>>
          /\ IF PollDueNow
               THEN previousFetchMillis' = ToLong(millis) /\ pc' = "get"
               ELSE UNCHANGED <<previousFetchMillis, pc>>
          /\ last'.render = RenderDueNow /\ last'.poll = PollDueNow]_vars

\* a tick in which both branches ran although the two timers were out of step
C11_Witness ==
  /\ RenderTick /\ PollTick /\ last.sinceBlink # last.sinceFetch
  /\ previousBlinkMillis = previousFetchMillis

\* C12: the timers are not coupled: previousBlinkMillis changes only in a
\* tick whose render timer is due, previousFetchMillis only in a tick whose
\* poll timer is due, each to that tick's clock sample; a render-only tick
\* leaves previousFetchMillis and a poll-only tick previousBlinkMillis as
\* they were.
C12_TimersNotCoupled ==
  [][/\ (previousBlinkMillis' # previousBlinkMillis)
          => (LoopTick /\ RenderDueNow /\ previousBlinkMillis' = ToLong(millis))
     /\ (previousFetchMillis' # previousFetchMillis)
          => (LoopTick /\ PollDueNow /\ previousFetchMillis' = ToLong(millis))
     /\ (LoopTick /\ ~PollDueNow) => (previousFetchMillis' = previousFetchMillis)
     /\ (LoopTick /\ ~RenderDueNow) => (previousBlinkMillis' = previousBlinkMillis)]_vars

\* a render-only tick after a poll: the fetch timestamp is still the poll's
C12_Witness ==
  /\ RenderTick /\ ~last.poll /\ nPoll >= 1
  /\ ToULong(previousFetchMillis) = (uptime - last.sinceFetch) % Word
  /\ previousFetchMillis # previousBlinkMillis

\* C13: the poll branch does not touch the animation phase or the indicator
\* state: from the call of get to its return, with or without an error,
\* yellowState, redState, greenState and the pins keep their values; the
\* phase is off before the first render tick and changes only in a tick whose
\* render timer is due.
C13_PollLeavesLeds ==
  /\ [](nRender = 0 => (yellowState = LOW /\ redState = LOW /\ greenState = LOW))
  /\ [][/\ (pc = "get") => UNCHANGED leds
        /\ (yellowState' # yellowState) => (LoopTick /\ RenderDueNow)
        /\ (LoopTick /\ ~RenderDueNow) => UNCHANGED leds]_vars

\* a get has returned building = 0 and the yellow phase is still on
C13_Witness ==
  last.op = "get" /\ yellowState = HIGH /\ building = 0 /\ pins[2] = HIGH

\* C14: a poll does not reach back into the render of its tick: a render
\* tick writes the state computed from the flags held when the tick began
\* and leaves the flags alone, and the flags a get brings change no indicator
\* until the next render tick.
C14_PollNotRetroactive ==
  [][/\ (LoopTick /\ RenderDueNow)
          => /\ pins' = <<NextRed(failing), NextYellow(building, yellowState),
                         NextGreen(failing)>>
             /\ UNCHANGED flags
     /\ (~(LoopTick /\ RenderDueNow)) => (pins' = pins)]_vars

\* the get of a tick that rendered and polled has returned failing = 1 and
\* the pins still show the state rendered in that tick
C14_Witness ==
  /\ last.op = "get" /\ nPoll >= 1 /\ lastBlinkAt = lastFetchAt
  /\ failing = 1 /\ pins[1] = LOW /\ pins[3] = HIGH

\* C15: the indicator computation and the output writes are gated by the
\* render timer: a loop iteration whose render timer is not due leaves
\* redState, yellowState, greenState and the pins unchanged, and a render
\* tick leaves on the pins the state computed in that same tick.
C15_RenderGated ==
  [][LoopTick
       => IF RenderDueNow
            THEN pins' = <<redState', yellowState', greenState'>>
            ELSE UNCHANGED <<redState, yellowState, greenState, pins>>]_vars

\* an iteration that only polled, while building with the yellow phase on
C15_Witness ==
  /\ last.op = "tick" /\ ~last.render /\ last.poll
  /\ building = 1 /\ yellowState = HIGH /\ pins[2] = HIGH

\* C16: a render tick at which building is 0 writes yellow off and leaves
\* the phase off, whatever the phase was; with the flags (building=0,
\* failing=1) it writes red on, yellow off, green off.
C16_IdleYellowOff ==
  [][(LoopTick /\ RenderDueNow /\ building = 0)
       => /\ yellowState' = LOW /\ pins'[2] = LOW
          /\ (failing = 1) => (pins' = <<HIGH, LOW, LOW>>)]_vars

\* a render tick with the flags (0, 1) after a row of blinks that ended with
\* the phase on
C16_Witness ==
  /\ RenderTick /\ building = 0 /\ failing = 1
  /\ prevRun = 1 /\ shown = 0 /\ pins = <<HIGH, LOW, LOW>>

\* C17: startup blocks on connectivity: a failed Ethernet.begin is followed
\* by the delay and another attempt, setup is left only by a successful
\* attempt, and while it lasts there is no render tick, no poll tick and no
\* indicator write.
C17_StartupBlocks ==
  /\ [](pc = "setup" => /\ nRender = 0 /\ nPoll = 0 /\ ret = "none"
                        /\ pins = <<LOW, LOW, LOW>>)
  /\ [][/\ (last'.op = "retry" /\ last' # last)
             => (pc = "setup" /\ pc' = "setup"
                 /\ uptime' = uptime + dhcpRetryDelay)
        /\ (pc = "setup" /\ pc' # "setup")
             => (last'.op = "begin" /\ pc' = "loop" /\ uptime' = uptime)]_vars

\* two failed attempts so far, still in setup
C17_Witness ==
  /\ last.op = "retry" /\ pc = "setup" /\ uptime >= 2 * dhcpRetryDelay
  /\ nRender = 0 /\ nPoll = 0

\* C18: red and green are never both on; both are off before the first
\* render tick and exactly one of them is on from then on.
C18_RedGreenExclusive ==
  /\ ~(redState = HIGH /\ greenState = HIGH)
  /\ ~(pins[1] = HIGH /\ pins[3] = HIGH)
  /\ (nRender = 0) => (redState = LOW /\ greenState = LOW)
  /\ (nRender > 0) => (redState # greenState /\ pins[1] # pins[3])

\* red is on and green off while the flags already say passing
C18_Witness ==
  nRender = 2 /\ redState = HIGH /\ greenState = LOW /\ failing = 0

\* C19: between any two consecutive poll ticks there is a render tick (the
\* render of the second poll's own tick included), however long the fetch
\* of the first blocked.
C19_RenderBetweenPolls ==
  [][(LoopTick /\ last'.poll /\ nPoll > 0)
       => (lastBlinkAt > lastFetchAt \/ last'.render)]_vars

\* C19 (amended): between two consecutive poll ticks there is a render tick
\* (the render of the second poll's own tick included) whenever less than one
\* period of the millisecond counter has passed since the last render tick;
\* a fetch that blocks for longer than the poll interval, but for less than
\* that, does not break it.
C19_RenderBetweenPollsWithinPeriod ==
  [][(LoopTick /\ last'.poll /\ nPoll > 0 /\ uptime - lastBlinkAt < Word)
       => (lastBlinkAt > lastFetchAt \/ (last'.render /\ lastBlinkAt' = uptime))]_vars

\* the second poll tick, right after a get that blocked for longer than the
\* poll interval: the tick rendered before it polled
C19_Witness ==
  /\ PollTick /\ RenderTick /\ last.afterGet /\ nPoll = 2
  /\ last.sinceFetch > fetchInterval /\ last.sinceFetch < Word

\* C20: the first render tick comes before the first poll (at the latest in
\* the same tick, ahead of it), so it works on the initial flags (0, 0) and
\* writes red off, yellow off, green on, however long startup took.
C20_FirstRenderFromInitialFlags ==
  /\ (nPoll > 0) => (nRender > 0)
  /\ (nRender = 0) => (building = 0 /\ failing = 0 /\ ret = "none")
  /\ (RenderTick /\ nRender = 1)
       => (pins = <<LOW, LOW, HIGH>> /\ (pc = "get" => ret = "none"))

\* the first render tick, which is also the first poll tick, after a startup
\* of two failed attempts or more
C20_Witness ==
  /\ RenderTick /\ PollTick /\ nRender = 1 /\ nPoll = 1
  /\ last.sinceBlink >= 2 * dhcpRetryDelay /\ pins = <<LOW, LOW, HIGH>>

====
